---- MODULE Spec2Model ----
(***************************************************************************)
(* pixellink: a payload is framed as prefix ++ size ++ payload, written    *)
(* three bytes per screen pixel by encodePacket and read back by           *)
(* decodePacket; senderLoop and receiverLoop alternate sending and         *)
(* polling over two pixel rows of the shared screen.                       *)
(*                                                                         *)
(* Number representation.  TLC's integers are 32-bit signed, so a          *)
(* uint32_t is held as the two's-complement integer with the same 32 bits  *)
(* (0xCAFEBABE is -889275714, 0xFFFFFFFF is -1), compared with ULt32 and   *)
(* incremented with Add32.  A size_t (64 bit) is the record [hi, lo] of    *)
(* its two 32-bit halves.  A std::vector<unsigned char> is the record      *)
(* [size, head, fill]: `size` elements, the first Len(head) of them        *)
(* listed in `head` and every later one equal to `fill`; a vector that     *)
(* fits in `head` has fill 0.                                              *)
(***************************************************************************)
EXTENDS Integers, Sequences, FiniteSets, TLC

\* Screen width in pixels, GetDeviceCaps(hdc, HORZRES).
HORZRES == 2
\* Screen height in pixels; pixels with y >= VERTRES are outside the screen.
VERTRES == 13
\* Longest ordinary message the user types.
MaxLen == 3

\* #define PREFIX 0xCAFEBABE
PREFIX == -889275714

\* a < b on two 32-bit words taken as signed.
SLt32(a, b) == a < b

\* Unsigned a < b on two 32-bit words.
ULt32(a, b) ==
    IF (a >= 0) = (b >= 0) THEN a < b ELSE a >= 0

\* Unsigned a + k modulo 2^32, for a small k >= 1.
Add32(a, k) ==
    IF a > 2147483647 - k
    THEN ((a - 2147483647) + (k - 1)) - 2147483647 - 1
    ELSE a + k

\* A size_t holding the small number n.
SizeT(n) == [hi |-> 0, lo |-> n]

\* size_t + small k, with the carry into the high half.
AddSize(s, k) ==
    LET lo == Add32(s.lo, k)
    IN  [hi |-> IF s.lo < 0 /\ lo >= 0 THEN s.hi + 1 ELSE s.hi, lo |-> lo]

\* small index i < size_t s.
LtSize(i, s) == s.hi > 0 \/ ULt32(i, s.lo)

\* The conversion size_t -> uint32_t keeps the low 32 bits.
TruncU32(s) == s.lo

\* memcpy(dst, &word, 4): the four bytes of a 32-bit word, lowest first.
WordToBytes(v) ==
    << v % 256, (v \div 256) % 256, (v \div 65536) % 256, (v \div 16777216) % 256 >>

\* memcpy(&word, src, 4): the 32-bit word made of four bytes, lowest first.
BytesToWord(b) ==
    (b[1] + b[2] * 256 + b[3] * 65536)
      + (IF b[4] >= 128 THEN b[4] - 256 ELSE b[4]) * 16777216

\* std::vector built from the listed bytes.
Vec(s) == [size |-> SizeT(Len(s)), head |-> s, fill |-> 0]

\* v[k], k counted from 0.
At(v, k) == IF k < Len(v.head) THEN v.head[k + 1] ELSE v.fill

\* Packet(const std::vector<unsigned char>& data)
PacketOf(data) ==
    [prefix |-> PREFIX, size |-> TruncU32(data.size), payload |-> data]

\* Packet()
PacketDefault == [prefix |-> 0, size |-> 0, payload |-> Vec(<< >>)]

\* COLORREF RGB(r, g, b)
RGB(r, g, b) == r + g * 256 + b * 65536
GetRValue(c) == c % 256
GetGValue(c) == (c \div 256) % 256
GetBValue(c) == (c \div 65536) % 256

\* GetPixel's result for a coordinate outside the screen, 0xFFFFFFFF.
CLR_INVALID == -1

Positions == (0 .. HORZRES - 1) \X (0 .. VERTRES - 1)
OnScreen(x, y) == x >= 0 /\ x < HORZRES /\ y >= 0 /\ y < VERTRES

\* SetPixel(hdc, x, y, color): fails, changing nothing, outside the screen.
SetPixel(surf, x, y, c) ==
    IF OnScreen(x, y) THEN [surf EXCEPT ![<<x, y>>] = c] ELSE surf

\* GetPixel(hdc, x, y)
GetPixel(surf, x, y) ==
    IF OnScreen(x, y) THEN surf[<<x, y>>] ELSE CLR_INVALID

\* NextCursor with the wrap one column late (> for >=).
NextCursorLate(x, y) ==
    IF x + 1 > HORZRES THEN <<0, y + 1>> ELSE <<x + 1, y>>

\* if (++x >= GetDeviceCaps(hdc, HORZRES)) { x = 0; y++; }
NextCursor(x, y) ==
    IF x + 1 >= HORZRES THEN <<0, y + 1>> ELSE <<x + 1, y>>

\* encodePacket, "serialize the packet": prefix, size, payload in one buffer.
Serialize(packet) ==
    [size |-> AddSize(packet.payload.size, 8),
     head |-> WordToBytes(packet.prefix) \o WordToBytes(packet.size)
                \o packet.payload.head,
     fill |-> packet.payload.fill]

\* EncodeColor with the three bytes in the order b, g, r.
EncodeColorBGR(buffer, i) ==
    RGB(IF LtSize(i + 2, buffer.size) THEN At(buffer, i + 2) ELSE 0,
        IF LtSize(i + 1, buffer.size) THEN At(buffer, i + 1) ELSE 0,
        At(buffer, i))

\* The colour encodePacket's loop builds at buffer index i.
EncodeColor(buffer, i) ==
    RGB(At(buffer, i),
        IF LtSize(i + 1, buffer.size) THEN At(buffer, i + 1) ELSE 0,
        IF LtSize(i + 2, buffer.size) THEN At(buffer, i + 2) ELSE 0)

\* encodePacket's loop from index i and cursor (x, y).  Once the cursor is
\* below the last row every remaining SetPixel fails and y never decreases,
\* so the rest of the loop changes nothing and is not unrolled.  `calls`
\* lists the SetPixel calls made up to that point.
RECURSIVE EncodeLoop(_, _, _, _, _, _)
EncodeLoop(buffer, i, x, y, surf, calls) ==
    IF ~LtSize(i, buffer.size) \/ y >= VERTRES
    THEN [surf |-> surf, calls |-> calls]
    ELSE LET c == EncodeColor(buffer, i)
             n == NextCursor(x, y)
         IN  EncodeLoop(buffer, i + 3, n[1], n[2], SetPixel(surf, x, y, c),
                        Append(calls, <<x, y, c>>))

\* void encodePacket(HDC hdc, int startX, int startY, const Packet& packet)
encodePacket(surf, startX, startY, packet) ==
    EncodeLoop(Serialize(packet), 0, startX, startY, surf, << >>)

\* The three bytes decodePacket pushes for the pixel at (x, y).
PixelBytes(surf, x, y) ==
    LET color == GetPixel(surf, x, y)
    IN  << GetRValue(color), GetGValue(color), GetBValue(color) >>

\* decodePacket, "read prefix and size first": for (int i = 0; i < 8; i += 3)
RECURSIVE HeaderLoop(_, _, _, _, _, _)
HeaderLoop(i, x, y, surf, buffer, reads) ==
    IF ~(i < 8)
    THEN [x |-> x, y |-> y, buffer |-> buffer, reads |-> reads]
    ELSE LET n == NextCursor(x, y)
         IN  HeaderLoop(i + 3, n[1], n[2], surf,
                        buffer \o PixelBytes(surf, x, y), Append(reads, <<x, y>>))

\* PayloadLoop with the loop test i <= size.
RECURSIVE PayloadLoopInclusive(_, _, _, _, _, _, _)
PayloadLoopInclusive(i, size, x, y, surf, buffer, reads) ==
    IF ~(ULt32(i, size) \/ i = size) \/ y >= VERTRES
    THEN [buffer |-> buffer, reads |-> reads, n |-> 0]
    ELSE LET c == NextCursor(x, y)
             r == PayloadLoopInclusive(Add32(i, 3), size, c[1], c[2], surf,
                         buffer \o PixelBytes(surf, x, y), Append(reads, <<x, y>>))
         IN  [r EXCEPT !.n = @ + 1]

\* The last turns of the payload loop that are taken one by one below the
\* last row of the screen.
TailTurns == 2

\* Turns of the payload loop from counter i that are taken together below
\* the last row: each of them only tests i < size, gets CLR_INVALID from
\* GetPixel, pushes 0xFF three times and adds 3 to i.  With i below 2^31
\* and size at or above it, the turns up to the last counter below 2^31;
\* otherwise all turns left but the last TailTurns.  No counter among
\* them reaches size, so none wraps.
SkipTurns(i, size) ==
    IF i >= 0 /\ size < 0
    THEN (2147483647 - i) \div 3
    ELSE LET left == ((size - i - 1) \div 3) + 1
         IN  IF left > TailTurns THEN left - TailTurns ELSE 0

\* decodePacket, "read the payload": for (uint32_t i = 0; i < size; i += 3).
\* `reads` lists the GetPixel calls up to the last row of the screen, n
\* counts all of them.  Below the last row every GetPixel returns
\* CLR_INVALID: the bytes pushed are all 0xFF and are not listed, the
\* cursor is not followed, and the counter runs on to its end.
RECURSIVE PayloadLoop(_, _, _, _, _, _, _)
PayloadLoop(i, size, x, y, surf, buffer, reads) ==
    IF ~ULt32(i, size)
    THEN [buffer |-> buffer, reads |-> reads, n |-> 0]
    ELSE IF y >= VERTRES
    THEN LET k == SkipTurns(i, size)
         IN  IF k > 0
             THEN LET r == PayloadLoop(i + 3 * k, size, x, y, surf, buffer, reads)
                  IN  [r EXCEPT !.n = @ + k]
             ELSE LET r == PayloadLoop(Add32(i, 3), size, x, y, surf, buffer, reads)
                  IN  [r EXCEPT !.n = @ + 1]
    ELSE LET c == NextCursor(x, y)
             r == PayloadLoop(Add32(i, 3), size, c[1], c[2], surf,
                              buffer \o PixelBytes(surf, x, y), Append(reads, <<x, y>>))
         IN  [r EXCEPT !.n = @ + 1]

\* AssignPayload keeping every byte read: payload = buffer.
AssignPayloadWhole(buffer, size) == Vec(buffer)

\* packet.payload.assign(buffer.begin(), buffer.begin() + packet.size), on
\* the bytes `buffer` the payload loop listed (any further ones are 0xFF).
AssignPayload(buffer, size) ==
    IF ULt32(Len(buffer), size)
    THEN [size |-> SizeT(size), head |-> buffer, fill |-> 255]
    ELSE Vec(SubSeq(buffer, 1, size))

\* decodePacket with the prefix compared in its three low bytes only.
decodePacketLow24(surf, startX, startY) ==
    LET h      == HeaderLoop(0, startX, startY, surf, << >>, << >>)
        prefix == BytesToWord(SubSeq(h.buffer, 1, 4))
        size   == BytesToWord(SubSeq(h.buffer, 5, 8))
    IN  IF SubSeq(h.buffer, 1, 3) # SubSeq(WordToBytes(PREFIX), 1, 3)
        THEN [packet |-> PacketDefault, reads |-> h.reads, n |-> Len(h.reads)]
        ELSE LET p == PayloadLoop(0, size, h.x, h.y, surf, << >>, h.reads)
             IN  [packet |-> [prefix |-> PREFIX, size |-> size,
                              payload |-> AssignPayload(p.buffer, size)],
                  reads |-> p.reads, n |-> Len(h.reads) + p.n]

\* Packet decodePacket(HDC hdc, int startX, int startY)
decodePacket(surf, startX, startY) ==
    LET h      == HeaderLoop(0, startX, startY, surf, << >>, << >>)
        prefix == BytesToWord(SubSeq(h.buffer, 1, 4))
        size   == BytesToWord(SubSeq(h.buffer, 5, 8))
    IN  IF prefix # PREFIX
        THEN [packet |-> PacketDefault, reads |-> h.reads, n |-> Len(h.reads)]
        ELSE LET p == PayloadLoop(0, size, h.x, h.y, surf, << >>, h.reads)
             IN  [packet |-> [prefix |-> prefix, size |-> size,
                              payload |-> AssignPayload(p.buffer, size)],
                  reads |-> p.reads, n |-> Len(h.reads) + p.n]

\* ---------------------------------------------------------------------
\* What the screen may show before the program writes to it.

\* The rows and columns at which the functions are called.
StartXs == 0 .. HORZRES - 1
StartRows == {0, 10}

\* A screen of one colour.
Blank(bg) == [p \in Positions |-> bg]

\* Byte streams left on the screen by earlier programs: a prefix that is the
\* sentinel or differs from it in one place, a size, some further bytes.
OldPrefixes ==
    { WordToBytes(PREFIX), <<191, 186, 254, 202>>, <<190, 186, 254, 203>>,
      <<0, 0, 0, 0>> }
OldSizes ==
    { WordToBytes(v) : v \in {0, 2, 2147483647, -2147483647 - 1, -3, -2, -1} }
OldStreams == { p \o s \o <<88, 89, 90>> : p \in OldPrefixes, s \in OldSizes }

\* The screen as GetDC(NULL) finds it: one colour, or an old stream on it.
InitScreens ==
    { Blank(0) } \cup
    { EncodeLoop(Vec(b), 0, x, y, Blank(0), << >>).surf :
        b \in OldStreams, x \in StartXs, y \in StartRows }

\* ---------------------------------------------------------------------
\* Messages.

RECURSIVE SeqsUpTo(_, _)
SeqsUpTo(S, n) ==
    IF n = 0 THEN { << >> }
    ELSE LET shorter == SeqsUpTo(S, n - 1)
         IN  shorter \cup { Append(s, b) : s \in { t \in shorter : Len(t) = n - 1 }, b \in S }

\* Ordinary messages, as byte vectors.
Payloads == { Vec(s) : s \in SeqsUpTo({65, 66}, MaxLen) \cup { <<65, 66, 67>> } }

\* Messages of 2^32 and 2^32 + 1 bytes (size_t is 64 bits wide).
Oversized ==
    { [size |-> [hi |-> 1, lo |-> k], head |-> <<65, 66>>, fill |-> 67] : k \in {0, 1} }

\* A message long enough for a frame to cover ten rows of the screen and
\* three pixels of the next: ten rows of three bytes per pixel.
LongPayloads ==
    { [size |-> SizeT(10 * HORZRES * 3), head |-> <<65>>, fill |-> 66] }

NoCall == [none |-> TRUE]

VARIABLES
    surface,   \* the screen: position -> COLORREF
    phase,     \* single-caller runs: "start", "written", "polled"
    enc,       \* single-caller runs: the encodePacket call made, or NoCall
    dec,       \* single-caller runs: the decodePacket call made, or NoCall
    out,       \* single-caller runs: the "Them: " lines printed
    pc,        \* per process: where its thread stands
    role,      \* per process: the loop main started
    mutex,     \* per process: screenMutex is locked
    cur,       \* per process: x, y, i of the running encodePacket / decodePacket
    buf,       \* per process: `buffer` of the running encodePacket / decodePacket
    pkt,       \* per process: `packet` / `reply` / `received`
    shown,     \* per process: the "Them: " lines printed
    sent,      \* per process: lines read by std::getline
    ops,       \* per process: SetPixel / GetPixel calls made by the last call
    touched,   \* the pixels some SetPixel call has written
    errs,      \* per process: the lines written to std::cerr
    instance,  \* per process: main's int instance (0 until std::cin sets it)
    hdc,       \* per process: main's hdc: "unset", "null", "held", "released"
    exitCode   \* per process: what main returned, -1 while it runs

codecVars == << phase, enc, dec, out >>
chanVars ==
    << pc, role, mutex, cur, buf, pkt, shown, sent, ops, touched, errs, instance, hdc, exitCode >>
vars == << surface, codecVars, chanVars >>

\* The two processes of a deployment.
Procs == {1, 2}

\* The channel's variables while no process runs.
ChanIdle ==
    /\ pc = [p \in Procs |-> "off"]
    /\ role = [p \in Procs |-> "none"]
    /\ mutex = [p \in Procs |-> FALSE]
    /\ cur = [p \in Procs |-> [x |-> 0, y |-> 0, i |-> 0]]
    /\ buf = [p \in Procs |-> << >>]
    /\ pkt = [p \in Procs |-> PacketDefault]
    /\ shown = [p \in Procs |-> << >>]
    /\ sent = [p \in Procs |-> 0]
    /\ ops = [p \in Procs |-> 0]
    /\ touched = {}
    /\ errs = [p \in Procs |-> << >>]
    /\ instance = [p \in Procs |-> 0]
    /\ hdc = [p \in Procs |-> "held"]
    /\ exitCode = [p \in Procs |-> -1]

\* if (reply.prefix == PREFIX) { ... std::cout << "Them: " << replyMessage
Display(lines, packet) ==
    IF packet.prefix = PREFIX THEN Append(lines, packet.payload) ELSE lines

\* ---------------------------------------------------------------------
\* Single-caller runs: one thread calls encodePacket and then polls once,
\* at any start coordinate on the screen, over any initial screen.

InitCodec ==
    /\ surface \in InitScreens
    /\ phase = "start"
    /\ enc = NoCall
    /\ dec = NoCall
    /\ out = << >>
    /\ ChanIdle

\* Packet packet(payload); encodePacket(hdc, txStartX, txStartY, packet);
CodecSend(data, x0, y0) ==
    /\ phase = "start"
    /\ LET r == encodePacket(surface, x0, y0, PacketOf(data))
       IN  /\ surface' = r.surf
           /\ enc' = [data |-> data, x0 |-> x0, y0 |-> y0,
                      packet |-> PacketOf(data),
                      buffer |-> Serialize(PacketOf(data)),
                      before |-> surface, calls |-> r.calls]
    /\ phase' = "written"
    /\ UNCHANGED << dec, out, chanVars >>

\* Packet reply = decodePacket(hdc, rxStartX, rxStartY); if (reply.prefix == PREFIX) ...
CodecPoll(x0, y0) ==
    /\ phase \in {"start", "written"}
    /\ LET r == decodePacket(surface, x0, y0)
       IN  /\ dec' = [x0 |-> x0, y0 |-> y0, packet |-> r.packet, reads |-> r.reads,
                      n |-> r.n, before |-> surface,
                      next |-> IF r.packet.prefix = PREFIX THEN "getline" ELSE "sleep"]
           /\ out' = Display(out, r.packet)
    /\ phase' = "polled"
    /\ UNCHANGED << surface, enc, chanVars >>

NextCodec ==
    \/ \E data \in Payloads \cup LongPayloads \cup Oversized,
          x0 \in StartXs, y0 \in StartRows :
         CodecSend(data, x0, y0)
    \/ \E x0 \in StartXs, y0 \in StartRows : CodecPoll(x0, y0)

SpecCodec == InitCodec /\ [][NextCodec]_vars

\* ---------------------------------------------------------------------
\* The channel: two processes on one screen, each with its own screenMutex
\* and one worker thread; every SetPixel and GetPixel call is a step, so the
\* two processes interleave pixel by pixel.

\* Lines the users type at most, per process.
MaxSends == 2

\* The messages the users type.
ChatMessages == { Vec(<< >>), Vec(<<65, 66>>) }

\* std::thread sender(senderLoop, hdc, 0, 0, 0, 10);
SenderArgs == [tx |-> <<0, 0>>, rx |-> <<0, 10>>]
\* std::thread receiver(receiverLoop, hdc, 0, 0, 0, 10);
ReceiverArgs == [rx |-> <<0, 0>>, tx |-> <<0, 10>>]

TxStart(p) == IF role[p] = "sender" THEN SenderArgs.tx ELSE ReceiverArgs.tx
RxStart(p) == IF role[p] = "sender" THEN SenderArgs.rx ELSE ReceiverArgs.rx

\* What the user of process p types at "Enter instance (1 or 2): ": the
\* number of the process, or a number that is neither 1 nor 2.
InstanceInputs(p) == {p, 3}

NoLocals == [x |-> 0, y |-> 0, i |-> 0]

Init ==
    /\ surface = Blank(0)
    /\ phase = "off"
    /\ enc = NoCall
    /\ dec = NoCall
    /\ out = << >>
    /\ pc = [p \in Procs |-> "main"]
    /\ role = [p \in Procs |-> "none"]
    /\ mutex = [p \in Procs |-> FALSE]
    /\ cur = [p \in Procs |-> NoLocals]
    /\ buf = [p \in Procs |-> Vec(<< >>)]
    /\ pkt = [p \in Procs |-> PacketDefault]
    /\ shown = [p \in Procs |-> << >>]
    /\ sent = [p \in Procs |-> 0]
    /\ ops = [p \in Procs |-> 0]
    /\ touched = {}
    /\ errs = [p \in Procs |-> << >>]
    /\ instance = [p \in Procs |-> 0]
    /\ hdc = [p \in Procs |-> "unset"]
    /\ exitCode = [p \in Procs |-> -1]

\* What GetDC(NULL) may return: a device context or NULL.
GetDCResults == {"held", "null"}

\* main: HDC hdc = GetDC(NULL); if (!hdc) { "Failed to get device context."
\* on std::cerr; return 1; } -- no prompt, no ReleaseDC.
GetDC(p, h) ==
    /\ pc[p] = "main"
    /\ hdc' = [hdc EXCEPT ![p] = h]
    /\ pc' = [pc EXCEPT ![p] = IF h = "null" THEN "failed" ELSE "prompt"]
    /\ errs' = [errs EXCEPT ![p] = IF h = "null"
                                    THEN Append(@, "Failed to get device context.")
                                    ELSE @]
    /\ exitCode' = [exitCode EXCEPT ![p] = IF h = "null" THEN 1 ELSE @]
    /\ UNCHANGED << surface, codecVars, role, mutex, cur, buf, pkt, shown, sent, ops, touched, instance >>

\* MainSelect with a plain else: every number but 1 starts receiverLoop.
MainSelectElseReceiver(p, i0) ==
    /\ pc[p] = "prompt"
    /\ role' = [role EXCEPT ![p] = IF i0 = 1 THEN "sender" ELSE "receiver"]
    /\ pc' = [pc EXCEPT ![p] = IF i0 = 1 THEN "getline" ELSE "decode"]
    /\ instance' = [instance EXCEPT ![p] = i0]
    /\ UNCHANGED << surface, codecVars, mutex, cur, buf, pkt, shown, sent, ops, touched, errs,
                    hdc, exitCode >>

\* main: the prompt, std::cin >> instance; start senderLoop, receiverLoop
\* or neither (then "Invalid instance number." on std::cerr,
\* ReleaseDC(NULL, hdc), return 0).
MainSelect(p, i0) ==
    /\ pc[p] = "prompt"
    /\ role' = [role EXCEPT ![p] = CASE i0 = 1 -> "sender"
                                     [] i0 = 2 -> "receiver"
                                     [] OTHER -> "invalid"]
    /\ pc' = [pc EXCEPT ![p] = CASE i0 = 1 -> "getline"
                                 [] i0 = 2 -> "decode"
                                 [] OTHER -> "exit"]
    /\ errs' = [errs EXCEPT ![p] = IF i0 \in {1, 2} THEN @
                                    ELSE Append(@, "Invalid instance number.")]
    /\ instance' = [instance EXCEPT ![p] = i0]
    /\ hdc' = [hdc EXCEPT ![p] = IF i0 \in {1, 2} THEN @ ELSE "released"]
    /\ exitCode' = [exitCode EXCEPT ![p] = IF i0 \in {1, 2} THEN @ ELSE 0]
    /\ UNCHANGED << surface, codecVars, mutex, cur, buf, pkt, shown, sent, ops, touched >>

\* std::getline(std::cin, message); payload(message...); Packet packet(payload);
GetLine(p, message) ==
    /\ pc[p] = "getline"
    /\ sent[p] < MaxSends
    /\ sent' = [sent EXCEPT ![p] = @ + 1]
    /\ pkt' = [pkt EXCEPT ![p] = PacketOf(message)]
    /\ pc' = [pc EXCEPT ![p] = "encode"]
    /\ UNCHANGED << surface, codecVars, role, mutex, cur, buf, shown, ops, touched, errs, instance, hdc, exitCode >>

\* encodePacket: lock_guard, x = startX, y = startY, serialize the packet.
EncodeLock(p) ==
    /\ pc[p] = "encode"
    /\ ~mutex[p]
    /\ mutex' = [mutex EXCEPT ![p] = TRUE]
    /\ buf' = [buf EXCEPT ![p] = Serialize(pkt[p])]
    /\ cur' = [cur EXCEPT ![p] = [x |-> TxStart(p)[1], y |-> TxStart(p)[2], i |-> 0]]
    /\ ops' = [ops EXCEPT ![p] = 0]
    /\ pc' = [pc EXCEPT ![p] = "encloop"]
    /\ UNCHANGED << surface, codecVars, role, pkt, shown, sent, touched, errs, instance, hdc, exitCode >>

\* encodePacket: one turn of the loop, one SetPixel.
EncodeStep(p) ==
    /\ pc[p] = "encloop"
    /\ LtSize(cur[p].i, buf[p].size)
    /\ LET x == cur[p].x
           y == cur[p].y
           n == NextCursor(x, y)
       IN  /\ surface' = SetPixel(surface, x, y, EncodeColor(buf[p], cur[p].i))
           /\ touched' = IF OnScreen(x, y) THEN touched \cup {<<x, y>>} ELSE touched
           /\ cur' = [cur EXCEPT ![p] = [x |-> n[1], y |-> n[2], i |-> cur[p].i + 3]]
    /\ ops' = [ops EXCEPT ![p] = @ + 1]
    /\ UNCHANGED << codecVars, pc, role, mutex, buf, pkt, shown, sent, errs, instance, hdc, exitCode >>

\* EncodeReturn after which the loop prompts again instead of polling.
EncodeReturnNoPoll(p) ==
    /\ pc[p] = "encloop"
    /\ ~LtSize(cur[p].i, buf[p].size)
    /\ mutex' = [mutex EXCEPT ![p] = FALSE]
    /\ buf' = [buf EXCEPT ![p] = Vec(<< >>)]
    /\ cur' = [cur EXCEPT ![p] = NoLocals]
    /\ pc' = [pc EXCEPT ![p] = "getline"]
    /\ UNCHANGED << surface, codecVars, role, pkt, shown, sent, ops, touched, errs, instance, hdc, exitCode >>

\* encodePacket: the loop ends, the lock_guard unlocks, the call returns;
\* senderLoop goes on to poll, receiverLoop to sleep.
EncodeReturn(p) ==
    /\ pc[p] = "encloop"
    /\ ~LtSize(cur[p].i, buf[p].size)
    /\ mutex' = [mutex EXCEPT ![p] = FALSE]
    /\ buf' = [buf EXCEPT ![p] = Vec(<< >>)]
    /\ cur' = [cur EXCEPT ![p] = NoLocals]
    /\ pc' = [pc EXCEPT ![p] = IF role[p] = "sender" THEN "decode" ELSE "sleep"]
    /\ UNCHANGED << surface, codecVars, role, pkt, shown, sent, ops, touched, errs, instance, hdc, exitCode >>

\* decodePacket: lock_guard, x = startX, y = startY, Packet packet, buffer.
DecodeLock(p) ==
    /\ pc[p] = "decode"
    /\ ~mutex[p]
    /\ mutex' = [mutex EXCEPT ![p] = TRUE]
    /\ buf' = [buf EXCEPT ![p] = Vec(<< >>)]
    /\ pkt' = [pkt EXCEPT ![p] = PacketDefault]
    /\ cur' = [cur EXCEPT ![p] = [x |-> RxStart(p)[1], y |-> RxStart(p)[2], i |-> 0]]
    /\ ops' = [ops EXCEPT ![p] = 0]
    /\ pc' = [pc EXCEPT ![p] = "hdrloop"]
    /\ UNCHANGED << surface, codecVars, role, shown, sent, touched, errs, instance, hdc, exitCode >>

\* decodePacket: one turn of the header loop, one GetPixel.
HeaderStep(p) ==
    /\ pc[p] = "hdrloop"
    /\ cur[p].i < 8
    /\ LET n == NextCursor(cur[p].x, cur[p].y)
       IN  /\ buf' = [buf EXCEPT ![p] = Vec(@.head \o PixelBytes(surface, cur[p].x, cur[p].y))]
           /\ cur' = [cur EXCEPT ![p] = [x |-> n[1], y |-> n[2], i |-> cur[p].i + 3]]
    /\ ops' = [ops EXCEPT ![p] = @ + 1]
    /\ UNCHANGED << surface, codecVars, pc, role, mutex, pkt, shown, sent, touched, errs, instance, hdc, exitCode >>

\* HeaderInvalid whose early return leaves screenMutex locked.
HeaderInvalidKeepsLock(p) ==
    /\ pc[p] = "hdrloop"
    /\ ~(cur[p].i < 8)
    /\ BytesToWord(SubSeq(buf[p].head, 1, 4)) # PREFIX
    /\ pkt' = [pkt EXCEPT ![p] = PacketDefault]
    /\ buf' = [buf EXCEPT ![p] = Vec(<< >>)]
    /\ cur' = [cur EXCEPT ![p] = NoLocals]
    /\ pc' = [pc EXCEPT ![p] = "check"]
    /\ UNCHANGED << surface, codecVars, role, mutex, shown, sent, ops, touched, errs, instance, hdc, exitCode >>

\* decodePacket: the header is read and the prefix is not PREFIX:
\* return Packet(), the lock_guard unlocks.
HeaderInvalid(p) ==
    /\ pc[p] = "hdrloop"
    /\ ~(cur[p].i < 8)
    /\ BytesToWord(SubSeq(buf[p].head, 1, 4)) # PREFIX
    /\ pkt' = [pkt EXCEPT ![p] = PacketDefault]
    /\ mutex' = [mutex EXCEPT ![p] = FALSE]
    /\ buf' = [buf EXCEPT ![p] = Vec(<< >>)]
    /\ cur' = [cur EXCEPT ![p] = NoLocals]
    /\ pc' = [pc EXCEPT ![p] = "check"]
    /\ UNCHANGED << surface, codecVars, role, shown, sent, ops, touched, errs, instance, hdc, exitCode >>

\* decodePacket: the header is read and the prefix is PREFIX:
\* buffer.clear(), go on to the payload loop with the cursor where it is.
HeaderValid(p) ==
    /\ pc[p] = "hdrloop"
    /\ ~(cur[p].i < 8)
    /\ BytesToWord(SubSeq(buf[p].head, 1, 4)) = PREFIX
    /\ pkt' = [pkt EXCEPT ![p] = [prefix |-> BytesToWord(SubSeq(buf[p].head, 1, 4)),
                                  size |-> BytesToWord(SubSeq(buf[p].head, 5, 8)),
                                  payload |-> Vec(<< >>)]]
    /\ buf' = [buf EXCEPT ![p] = Vec(<< >>)]
    /\ cur' = [cur EXCEPT ![p].i = 0]
    /\ pc' = [pc EXCEPT ![p] = "payloop"]
    /\ UNCHANGED << surface, codecVars, role, mutex, shown, sent, ops, touched, errs, instance, hdc, exitCode >>

\* decodePacket: one turn of the payload loop, one GetPixel.
PayloadStep(p) ==
    /\ pc[p] = "payloop"
    /\ ULt32(cur[p].i, pkt[p].size)
    /\ LET n == NextCursor(cur[p].x, cur[p].y)
       IN  /\ buf' = [buf EXCEPT ![p] = Vec(@.head \o PixelBytes(surface, cur[p].x, cur[p].y))]
           /\ cur' = [cur EXCEPT ![p] = [x |-> n[1], y |-> n[2], i |-> Add32(cur[p].i, 3)]]
    /\ ops' = [ops EXCEPT ![p] = @ + 1]
    /\ UNCHANGED << surface, codecVars, pc, role, mutex, pkt, shown, sent, touched, errs, instance, hdc, exitCode >>

\* decodePacket: the payload loop ends, payload.assign, return packet,
\* the lock_guard unlocks.
PayloadReturn(p) ==
    /\ pc[p] = "payloop"
    /\ ~ULt32(cur[p].i, pkt[p].size)
    /\ pkt' = [pkt EXCEPT ![p].payload = AssignPayload(buf[p].head, pkt[p].size)]
    /\ mutex' = [mutex EXCEPT ![p] = FALSE]
    /\ buf' = [buf EXCEPT ![p] = Vec(<< >>)]
    /\ cur' = [cur EXCEPT ![p] = NoLocals]
    /\ pc' = [pc EXCEPT ![p] = "check"]
    /\ UNCHANGED << surface, codecVars, role, shown, sent, ops, touched, errs, instance, hdc, exitCode >>

\* The loops: if (reply.prefix == PREFIX) print "Them: " and the payload;
\* senderLoop breaks to its next getline, receiverLoop goes to its getline.
ShowReply(p) ==
    /\ pc[p] = "check"
    /\ pkt[p].prefix = PREFIX
    /\ shown' = [shown EXCEPT ![p] = Display(@, pkt[p])]
    /\ pc' = [pc EXCEPT ![p] = "getline"]
    /\ UNCHANGED << surface, codecVars, role, mutex, cur, buf, pkt, sent, ops, touched, errs, instance, hdc, exitCode >>

\* NoReply that gives up polling and returns to the prompt.
NoReplyGiveUp(p) ==
    /\ pc[p] = "check"
    /\ pkt[p].prefix # PREFIX
    /\ pc' = [pc EXCEPT ![p] = "getline"]
    /\ UNCHANGED << surface, codecVars, role, mutex, cur, buf, pkt, shown, sent, ops, touched, errs, instance, hdc, exitCode >>

\* The loops: the prefix is not PREFIX, nothing is printed, sleep_for(100 ms).
NoReply(p) ==
    /\ pc[p] = "check"
    /\ pkt[p].prefix # PREFIX
    /\ pc' = [pc EXCEPT ![p] = "sleep"]
    /\ UNCHANGED << surface, codecVars, role, mutex, cur, buf, pkt, shown, sent, ops, touched, errs, instance, hdc, exitCode >>

\* sleep_for returns; the loop calls decodePacket again.
Wake(p) ==
    /\ pc[p] = "sleep"
    /\ pc' = [pc EXCEPT ![p] = "decode"]
    /\ UNCHANGED << surface, codecVars, role, mutex, cur, buf, pkt, shown, sent, ops, touched, errs, instance, hdc, exitCode >>

\* The steps of process p's worker thread once its loop runs.
Worker(p) ==
    \/ EncodeLock(p) \/ EncodeStep(p) \/ EncodeReturn(p)
    \/ DecodeLock(p) \/ HeaderStep(p) \/ HeaderInvalid(p) \/ HeaderValid(p)
    \/ PayloadStep(p) \/ PayloadReturn(p)
    \/ ShowReply(p) \/ NoReply(p) \/ Wake(p)

Next ==
    \E p \in Procs :
        \/ \E h \in GetDCResults : GetDC(p, h)
        \/ \E i0 \in InstanceInputs(p) : MainSelect(p, i0)
        \/ \E message \in ChatMessages : GetLine(p, message)
        \/ Worker(p)

Spec == Init /\ [][Next]_vars

\* The scheduler runs every worker thread that can take a step; the users
\* may stop typing.
FairSpec == Spec /\ \A p \in Procs : WF_vars(Worker(p))

\* ---------------------------------------------------------------------
\* The wire format, stated without the cursor code: pixel k of a stream
\* that starts at (x0, y0), and the byte at offset o of that stream.

StreamPos(x0, y0, k) == << (x0 + k) % HORZRES, y0 + ((x0 + k) \div HORZRES) >>

StreamByte(surf, x0, y0, o) ==
    LET pos == StreamPos(x0, y0, o \div 3)
        c   == IF pos \in Positions THEN surf[pos] ELSE -1
    IN  CASE o % 3 = 0 -> c % 256
          [] o % 3 = 1 -> (c \div 256) % 256
          [] o % 3 = 2 -> (c \div 65536) % 256

\* 0xCAFEBABE as it lies in memory, lowest byte first.
SentinelBytes == <<190, 186, 254, 202>>

\* A poll was made at the coordinate of the encodePacket call before it.
ReadBack ==
    /\ phase = "polled"
    /\ enc # NoCall
    /\ dec.x0 = enc.x0
    /\ dec.y0 = enc.y0

\* The payload given to encodePacket has fewer than 2^32 bytes.
FitsU32 == enc.data.size.hi = 0

\* ---------------------------------------------------------------------
\* C1 (as claimed): round trip.  decodePacket at the coordinate where
\* encodePacket wrote Packet(P), |P| < 2^32, returns prefix 0xCAFEBABE,
\* size |P| and payload P.
C1_RoundTrip ==
    (ReadBack /\ FitsU32) =>
        /\ dec.packet.prefix = PREFIX
        /\ dec.packet.size = enc.data.size.lo
        /\ dec.packet.payload = enc.data

\* C2: magic rejection.  When the first four bytes of the stream at the
\* polled coordinate are not the sentinel, decodePacket returns the invalid
\* packet (prefix 0, size 0, no payload) and the poll prints nothing.
C2_MagicRejection ==
    (/\ phase = "polled"
     /\ [k \in 1 .. 4 |-> StreamByte(surface, dec.x0, dec.y0, k - 1)] # SentinelBytes)
    => /\ dec.packet.prefix # PREFIX
       /\ dec.packet.size = 0
       /\ dec.packet.payload = Vec(<< >>)
       /\ out = << >>
       /\ dec.next = "sleep"

\* C2 happens: a poll of a stream that differs from the sentinel in the
\* fourth byte only and goes on with a size of 2 and further bytes.
C2_Witness ==
    /\ phase = "polled"
    /\ [k \in 1 .. 8 |-> StreamByte(surface, dec.x0, dec.y0, k - 1)]
         = <<190, 186, 254, 203, 2, 0, 0, 0>>
    /\ dec.packet = PacketDefault

\* Decoded payload byte j was read from a pixel that encodePacket wrote, at
\* a frame offset past the end of the serialized frame: a padding zero.
FromPadding(j) ==
    \E m \in 1 .. Len(enc.calls) :
        /\ 3 + (j \div 3) + 1 <= Len(dec.reads)
        /\ << enc.calls[m][1], enc.calls[m][2] >> = dec.reads[3 + (j \div 3) + 1]
        /\ ~LtSize(3 * (m - 1) + (j % 3), enc.buffer.size)

\* C3 (as claimed): padding invisibility.  For a payload whose length L is
\* not a multiple of 3, the payload read back has exactly L bytes and none
\* of them is one of the zeros that filled the last pixel.
C3_PaddingInvisible ==
    (ReadBack /\ FitsU32 /\ enc.data.size.lo % 3 # 0) =>
        /\ dec.packet.payload.size = enc.data.size
        /\ Len(dec.packet.payload.head) = enc.data.size.lo
        /\ \A j \in 0 .. enc.data.size.lo - 1 : ~FromPadding(j)

\* The bytes 0xCAFEBABE, 3, 'A' 'B' 'C' of scenario A.
ScenarioABytes == <<190, 186, 254, 202, 3, 0, 0, 0, 65, 66, 67>>

\* C4 (as claimed): scenario A.  The payload [0x41,0x42,0x43] serializes to
\* prefix ++ 3 ++ payload, and its three bytes are written as one pixel
\* (0x41,0x42,0x43), the last one, after pixels that hold header bytes only.
C4_ScenarioA_Claimed ==
    (enc # NoCall /\ enc.data = Vec(<<65, 66, 67>>)) =>
        /\ enc.buffer = Vec(ScenarioABytes)
        /\ enc.calls # << >>
        /\ enc.calls[Len(enc.calls)][3] = RGB(65, 66, 67)
        /\ \A m \in 1 .. Len(enc.calls) - 1 :
              \A b \in {GetRValue(enc.calls[m][3]), GetGValue(enc.calls[m][3]),
                        GetBValue(enc.calls[m][3])} : b \notin {65, 66, 67}

\* C4 (amended): scenario A.  The payload [0x41,0x42,0x43] serializes to the
\* 11 bytes prefix ++ 3 ++ payload (each word lowest byte first), written as
\* four pixels in a row of the stream: (BE,BA,FE), (CA,03,00), (00,00,41),
\* (42,43,00); the first payload byte shares the third pixel with the last
\* two size bytes, and the fourth pixel ends with one padding zero.
C4_ScenarioA ==
    (enc # NoCall /\ enc.data = Vec(<<65, 66, 67>>)) =>
        /\ enc.buffer = Vec(ScenarioABytes)
        /\ [m \in 1 .. Len(enc.calls) |-> enc.calls[m][3]]
             = << RGB(190, 186, 254), RGB(202, 3, 0), RGB(0, 0, 65), RGB(66, 67, 0) >>
        /\ \A m \in 1 .. Len(enc.calls) :
              << enc.calls[m][1], enc.calls[m][2] >> = StreamPos(enc.x0, enc.y0, m - 1)

\* C4 happens: scenario A's payload was written, starting in the last column.
C4_Witness ==
    /\ enc # NoCall
    /\ enc.data = Vec(<<65, 66, 67>>)
    /\ enc.x0 = HORZRES - 1
    /\ surface[StreamPos(enc.x0, enc.y0, 3)] = RGB(66, 67, 0)

\* The pixels from (x0, y0) to the end of the last row of the screen.
PixelsToEdge(x0, y0) == (VERTRES - y0) * HORZRES - x0

Min(a, b) == IF a < b THEN a ELSE b

\* C5: cursor wraparound.  The i-th SetPixel call of encodePacket is at
\* ((x0+i) mod W, y0 + (x0+i) div W); a frame of B < 2^32 + 8 bytes makes
\* ceil(B/3) calls (those up to the last row of the screen are listed); no
\* pixel elsewhere changes; decodePacket's GetPixel calls follow the same
\* rule.
C5_CursorWraparound ==
    /\ enc # NoCall =>
        /\ \A m \in 1 .. Len(enc.calls) :
              << enc.calls[m][1], enc.calls[m][2] >> = StreamPos(enc.x0, enc.y0, m - 1)
        /\ enc.buffer.size.hi = 0
              => Len(enc.calls) = Min((enc.buffer.size.lo + 2) \div 3,
                                      PixelsToEdge(enc.x0, enc.y0))
        /\ \A pos \in Positions :
              pos \notin { StreamPos(enc.x0, enc.y0, m - 1) : m \in 1 .. Len(enc.calls) }
                 => surface[pos] = enc.before[pos]
    /\ dec # NoCall =>
        \A k \in 1 .. Len(dec.reads) : dec.reads[k] = StreamPos(dec.x0, dec.y0, k - 1)

\* C5 happens: a four-pixel frame written from the last column of a row, so
\* that the cursor wraps after the first pixel, and read back from there.
C5_Witness ==
    /\ ReadBack
    /\ enc.x0 = HORZRES - 1
    /\ Len(enc.calls) = 4
    /\ Len(dec.reads) = 4
    /\ enc.calls[2][1] = 0
    /\ enc.calls[2][2] = enc.y0 + 1

\* C6 (as claimed): oversized payload.  A payload of 2^32 bytes or more is
\* rejected before any pixel is written, and the size field of a frame on
\* the screen is never a truncation of the payload's length.
C6_OversizedRejected ==
    /\ (enc # NoCall /\ ~FitsU32) => (enc.calls = << >> /\ surface = enc.before)
    /\ (enc # NoCall /\ enc.calls # << >>)
          => SizeT(BytesToWord(SubSeq(enc.buffer.head, 5, 8))) = enc.data.size

\* ---------------------------------------------------------------------
\* The channel's role states.

Running(p) == role[p] \in {"sender", "receiver"}

\* AwaitingInput, Writing, Polling, DecodedValid of the spec's state machine;
\* "Start" before main has read the instance number, "Exit" after it
\* rejected it or got no device context.
RoleState(p) ==
    CASE pc[p] \in {"main", "prompt"} -> "Start"
      [] pc[p] \in {"exit", "failed"} -> "Exit"
      [] pc[p] = "getline" -> "AwaitingInput"
      [] pc[p] \in {"encode", "encloop"} -> "Writing"
      [] pc[p] = "check" /\ pkt[p].prefix = PREFIX -> "DecodedValid"
      [] OTHER -> "Polling"

\* The three pixels a poll of process p reads first.
RxHeader(p) == { StreamPos(RxStart(p)[1], RxStart(p)[2], k) : k \in 0 .. 2 }

\* No SetPixel call of either process has written p's read region.
RxUntouched(p) == RxHeader(p) \cap touched = {}

C7_Inv ==
    \A p \in Procs :
        (Running(p) /\ RxUntouched(p)) =>
            /\ shown[p] = << >>
            /\ pc[p] = "check" => pkt[p] = PacketDefault
            /\ RoleState(p) # "DecodedValid"
            /\ pc[p] # "payloop"

C7_Step ==
    \A p \in Procs :
        (RoleState(p) = "Polling" /\ RxUntouched(p)') => RoleState(p)' = "Polling"

C7_Retry ==
    \A p \in Procs :
        <>[](RoleState(p) = "Polling" /\ RxUntouched(p))
            => ([]<>(pc[p] = "sleep") /\ []<>(pc[p] = "hdrloop" /\ ops[p] = 3))

\* C7: blank region, scenario B.  While no SetPixel has written a process's
\* read region (the screen starts in one colour), every poll returns the
\* invalid packet, nothing is printed, and the process stays in Polling; if
\* the region is never written the process sleeps and polls again and again
\* without end.
C7_BlankPolling == []C7_Inv /\ [][C7_Step]_vars /\ C7_Retry

\* C7 happens: the sender has written its frame, its peer has exited
\* without writing, and the sender sleeps after a poll that found nothing.
C7_Witness ==
    /\ role[1] = "sender"
    /\ sent[1] = 1
    /\ pc[1] = "sleep"
    /\ pkt[1] = PacketDefault
    /\ ops[1] = 3
    /\ pc[2] = "exit"
    /\ RxUntouched(1)

\* The moves of the role state machine.
RoleMoves ==
    { <<"Start", "AwaitingInput">>, <<"Start", "Polling">>, <<"Start", "Exit">>,
      <<"AwaitingInput", "Writing">>, <<"Writing", "Polling">>,
      <<"Polling", "DecodedValid">>, <<"DecodedValid", "AwaitingInput">> }

C8_Inv ==
    \A p \in Procs :
        /\ role[p] = "sender" =>
              /\ sent[p] - Len(shown[p]) \in {0, 1}
              /\ RoleState(p) = "AwaitingInput" <=> sent[p] = Len(shown[p])
        /\ role[p] = "receiver" =>
              /\ Len(shown[p]) - sent[p] \in {0, 1}
              /\ RoleState(p) = "AwaitingInput" <=> Len(shown[p]) = sent[p] + 1
              /\ shown[p] = << >> =>
                    (sent[p] = 0 /\ RoleState(p) \in {"Polling", "DecodedValid"})

C8_Step ==
    \A p \in Procs :
        /\ RoleState(p)' # RoleState(p) => <<RoleState(p), RoleState(p)'>> \in RoleMoves
        /\ (RoleState(p) = "Start" /\ role'[p] = "sender") => RoleState(p)' = "AwaitingInput"
        /\ (RoleState(p) = "Start" /\ role'[p] = "receiver") => RoleState(p)' = "Polling"
        /\ (RoleState(p) = "Start" /\ RoleState(p)' = "AwaitingInput") => role'[p] = "sender"

\* C8: role state sequence.  A worker moves only along AwaitingInput ->
\* Writing -> Polling -> DecodedValid -> AwaitingInput; the sender starts in
\* AwaitingInput, the receiver in Polling; the receiver neither prompts nor
\* writes before it has printed a frame; writes and printed frames alternate
\* in each process.
C8_RoleSequence == []C8_Inv /\ [][C8_Step]_vars

\* C8 happens: the receiver has gone once round the cycle and decoded a
\* valid frame again, the sender has written twice.
C8_Witness ==
    /\ role[2] = "receiver"
    /\ sent[2] = 1
    /\ Len(shown[2]) = 1
    /\ RoleState(2) = "DecodedValid"
    /\ role[1] = "sender"
    /\ sent[1] = 2

C9_Inv ==
    \A p \in Procs : mutex[p] <=> pc[p] \in {"encloop", "hdrloop", "payloop"}

C9_Step ==
    \A p \in Procs :
        /\ (ops'[p] # ops[p] /\ ops'[p] # 0) => (mutex[p] /\ mutex'[p])
        /\ surface' # surface => \E q \in Procs : mutex[q] /\ mutex'[q] /\ ops'[q] = ops[q] + 1

\* C9: mutual exclusion within a process.  Every SetPixel and GetPixel call
\* is made with the caller's screenMutex locked, and the mutex is unlocked
\* whenever the worker is outside encodePacket and decodePacket: after the
\* early return on a wrong prefix, while it sleeps, while it waits for input.
C9_MutualExclusion == []C9_Inv /\ [][C9_Step]_vars

\* C9 happens: one process sleeps after decodePacket's early return, its
\* mutex unlocked, while the other is inside encodePacket with its own locked.
C9_Witness ==
    \E p, q \in Procs :
        /\ pc[p] = "sleep"
        /\ pkt[p] = PacketDefault
        /\ ops[p] = 3
        /\ ~mutex[p]
        /\ pc[q] = "encloop"
        /\ ops[q] = 2
        /\ mutex[q]

\* C10: scenario C, the empty payload.  encodePacket writes the 8 header
\* bytes as three pixels (BE,BA,FE), (CA,00,00), (00,00,00) and no more;
\* decodePacket there reads three pixels and no payload pixel and returns
\* prefix 0xCAFEBABE, size 0, an empty payload; the loop prints an empty
\* message and goes on to its getline as after any valid frame.
C10_EmptyPayload ==
    /\ (enc # NoCall /\ enc.data = Vec(<< >>)) =>
          /\ enc.buffer.size = SizeT(8)
          /\ [m \in 1 .. Len(enc.calls) |-> enc.calls[m][3]]
               = << RGB(190, 186, 254), RGB(202, 0, 0), RGB(0, 0, 0) >>
    /\ (ReadBack /\ enc.data = Vec(<< >>)) =>
          /\ dec.packet = [prefix |-> PREFIX, size |-> 0, payload |-> Vec(<< >>)]
          /\ Len(dec.reads) = 3
          /\ out = << Vec(<< >>) >>
          /\ dec.next = "getline"

\* C10 happens: an empty payload written over an old stream whose bytes
\* still follow the new header, and read back.
C10_Witness ==
    /\ ReadBack
    /\ enc.data = Vec(<< >>)
    /\ enc.before[StreamPos(enc.x0, enc.y0, 3)] # 0
    /\ surface[StreamPos(enc.x0, enc.y0, 3)] = enc.before[StreamPos(enc.x0, enc.y0, 3)]
    /\ out = << Vec(<< >>) >>

\* ---------------------------------------------------------------------
\* main of process p has read the instance number.
Selected(p) == pc[p] \notin {"main", "prompt", "failed"}

C11_Inv ==
    \A p \in Procs :
        /\ (Selected(p) /\ ~(instance[p] \in {1, 2})) =>
              /\ role[p] = "invalid"
              /\ pc[p] = "exit"
              /\ errs[p] = << "Invalid instance number." >>
              /\ hdc[p] = "released"
              /\ exitCode[p] = 0
              /\ ops[p] = 0
              /\ sent[p] = 0
              /\ shown[p] = << >>
              /\ ~mutex[p]
        /\ errs[p] = << "Invalid instance number." >>
              => (Selected(p) /\ ~(instance[p] \in {1, 2}))
        /\ pc[p] = "exit" <=> (Selected(p) /\ ~(instance[p] \in {1, 2}))

C11_Step ==
    /\ \A p \in Procs :
          pc[p] = "exit" =>
              /\ pc'[p] = "exit"
              /\ << role[p], mutex[p], cur[p], buf[p], pkt[p], shown[p], sent[p], ops[p],
                    errs[p], hdc[p], exitCode[p] >>'
                   = << role[p], mutex[p], cur[p], buf[p], pkt[p], shown[p], sent[p], ops[p],
                        errs[p], hdc[p], exitCode[p] >>
    /\ (surface' # surface \/ touched' # touched)
          => \E q \in Procs : /\ instance[q] \in {1, 2}
                              /\ pc[q] = "encloop"
                              /\ ops'[q] = ops[q] + 1

\* C11: configuration error.  When the number typed at startup is neither 1
\* nor 2 the process writes "Invalid instance number." once and exits; it
\* starts neither loop, never locks screenMutex and makes no GetPixel or
\* SetPixel call, and every change of the screen is a step of a process
\* that runs a loop.
C11_ConfigError == []C11_Inv /\ [][C11_Step]_vars

\* C11 happens: process 1 was given a wrong number and has exited, while
\* process 2 runs receiverLoop and has polled.
C11_Witness ==
    /\ instance[1] = 3
    /\ pc[1] = "exit"
    /\ errs[1] = << "Invalid instance number." >>
    /\ role[2] = "receiver"
    /\ pc[2] = "sleep"
    /\ ops[2] = 3

\* ---------------------------------------------------------------------
\* The size field of a packet is the number of bytes of its payload (and
\* the payload lists no byte beyond that number).
SizeIsLength(packet) ==
    /\ packet.payload.size = SizeT(packet.size)
    /\ ~ULt32(packet.size, Len(packet.payload.head))

\* C12: frame length invariant.  Every Packet built from a message of fewer
\* than 2^32 bytes, and every Packet decodePacket returns, valid or not, has
\* a size field equal to the number of bytes of its payload.
C12_FrameLength ==
    /\ (enc # NoCall /\ FitsU32) => SizeIsLength(enc.packet)
    /\ dec # NoCall => SizeIsLength(dec.packet)

\* C12 happens: a two-byte message was built and sent, and decodePacket
\* returned a valid two-byte packet cut from the three bytes of one pixel.
C12_Witness ==
    /\ phase = "polled"
    /\ enc # NoCall
    /\ enc.packet.size = 2
    /\ dec.packet.prefix = PREFIX
    /\ dec.packet.size = 2
    /\ Len(dec.reads) = 4

\* ---------------------------------------------------------------------
\* The stream decodePacket was called on starts with the sentinel.
PolledSentinel ==
    /\ phase = "polled"
    /\ \A o \in 0 .. 3 : StreamByte(surface, dec.x0, dec.y0, o) = SentinelBytes[o + 1]

\* The length field of that stream: the word at offsets 4..7.
PolledLength ==
    BytesToWord([o \in 1 .. 4 |-> StreamByte(surface, dec.x0, dec.y0, 3 + o)])

\* C13 (as claimed): decode follows the wire format.  On a stream that has
\* the sentinel at offsets 0..3 and the length L at offsets 4..7,
\* decodePacket returns as payload the L bytes at offsets 8 .. 8+L-1.
C13_DecodeWireFormat ==
    PolledSentinel =>
        /\ dec.packet.prefix = PREFIX
        /\ dec.packet.size = PolledLength
        /\ dec.packet.payload.size = SizeT(PolledLength)
        /\ \A j \in 0 .. Len(dec.packet.payload.head) - 1 :
              dec.packet.payload.head[j + 1]
                = StreamByte(surface, dec.x0, dec.y0, 8 + j)

\* ---------------------------------------------------------------------
\* Byte o of the stream carried by the SetPixel calls encodePacket made.
WrittenByte(o) ==
    LET c == enc.calls[(o \div 3) + 1][3]
    IN  CASE o % 3 = 0 -> GetRValue(c)
          [] o % 3 = 1 -> GetGValue(c)
          [] o % 3 = 2 -> GetBValue(c)

\* C14 (as claimed): encode follows the wire format.  For every payload the
\* k-th pixel written is the k-th pixel from the start coordinate and
\* carries bytes 3k, 3k+1, 3k+2 of magic ++ length ++ payload, the length
\* being the payload's length as decodePacket reads a length, with 0 past
\* the end; ceil((8 + length) / 3) pixels are written (those up to the last
\* row of the screen are listed).
C14_EncodeWireFormat ==
    enc # NoCall =>
        /\ Len(enc.calls) >= 3
        /\ \A m \in 1 .. Len(enc.calls) :
              << enc.calls[m][1], enc.calls[m][2] >> = StreamPos(enc.x0, enc.y0, m - 1)
        /\ \A o \in 0 .. 3 : WrittenByte(o) = SentinelBytes[o + 1]
        /\ SizeT(BytesToWord([o \in 1 .. 4 |-> WrittenByte(3 + o)])) = enc.data.size
        /\ \A o \in 8 .. 3 * Len(enc.calls) - 1 :
              WrittenByte(o) = IF LtSize(o - 8, enc.data.size)
                               THEN At(enc.data, o - 8) ELSE 0
        /\ FitsU32 =>
              Len(enc.calls) = Min((8 + enc.data.size.lo + 2) \div 3,
                                   PixelsToEdge(enc.x0, enc.y0))

\* ---------------------------------------------------------------------
\* The other process of the deployment.
Peer(p) == CHOOSE q \in Procs : q # p

\* The encodePacket calls of process q that have returned.
Completed(q) == sent[q] - (IF pc[q] \in {"encode", "encloop"} THEN 1 ELSE 0)

\* C15 (as claimed): torn reads across processes.  Whatever the interleaving
\* of the peer's SetPixel calls with this process's GetPixel calls, a packet
\* decodePacket returns is invalid or is a frame the peer wrote completely:
\* the peer has finished a write, and size and payload are those of one of
\* the messages the peer can have sent.
C15_TornReads ==
    \A p \in Procs :
        (pc[p] = "check" /\ pkt[p].prefix = PREFIX) =>
            /\ Completed(Peer(p)) >= 1
            /\ \E m \in ChatMessages :
                  /\ SizeT(pkt[p].size) = m.size
                  /\ pkt[p].payload = m

\* ---------------------------------------------------------------------
\* C16 (as claimed): no stale re-delivery.  A frame written once is
\* displayed by the peer at most once, so a process has displayed at most
\* as many messages as its peer has begun to write; the n-th message the
\* sender displays follows its n-th send and is a new frame of the peer.
C16_NoStaleRedelivery ==
    \A p \in Procs : Len(shown[p]) <= sent[Peer(p)]

\* ---------------------------------------------------------------------
\* C17 (as claimed): write regions stay disjoint.  For every payload, a
\* frame written from an instance's write coordinate covers none of the
\* pixels at which every frame of the peer begins, which are also the
\* pixels the caller's own decodePacket reads first: the three header
\* pixels from the instance's read coordinate.
C17_RegionsDisjoint ==
    \A a \in {SenderArgs, ReceiverArgs} :
        (enc # NoCall /\ << enc.x0, enc.y0 >> = a.tx) =>
            \A m \in 1 .. Len(enc.calls), k \in 0 .. 2 :
                << enc.calls[m][1], enc.calls[m][2] >> # StreamPos(a.rx[1], a.rx[2], k)

\* ---------------------------------------------------------------------
\* C18 (as claimed): no lost message.  While both loops run, a process does
\* not begin to overwrite its write region before the peer has displayed
\* the frame written there before: when it is in its n-th encodePacket the
\* peer has displayed at least n - 1 messages.
C18_NoLostMessage ==
    \A p \in Procs :
        (Running(p) /\ Running(Peer(p)) /\ pc[p] \in {"encode", "encloop"})
            => Len(shown[Peer(p)]) >= sent[p] - 1

\* ---------------------------------------------------------------------
\* ceil(v / 3) for a 32-bit word v taken as unsigned (2^32 = 3 * 1431655765 + 1).
CeilThirdU32(v) ==
    IF v = 0 THEN 0
    ELSE IF v > 0 THEN ((v - 1) \div 3) + 1
    ELSE 1431655765 + ((v + 3) \div 3)

\* C19: two-phase read always terminates.  On every screen decodePacket
\* returns after 3 GetPixel calls when the stream does not begin with the
\* sentinel and after 3 + ceil(L / 3) calls when it does, L being any
\* 32-bit length, and it changes no pixel.
C19_TwoPhaseRead ==
    phase = "polled" =>
        /\ surface = dec.before
        /\ Len(dec.reads) <= dec.n
        /\ dec.n = IF PolledSentinel THEN 3 + CeilThirdU32(PolledLength) ELSE 3

\* C19 happens: the stream begins with the sentinel and the length
\* 0xFFFFFFFE, and decodePacket returned after 3 + 1431655765 calls.
C19_Witness ==
    /\ PolledSentinel
    /\ PolledLength = -2
    /\ dec.packet.prefix = PREFIX
    /\ dec.n = 1431655768
====
